---- MODULE Spec2Model ----
(***************************************************************************)
(* Model of torchgen/static_runtime/generator.py: the eligibility          *)
(* classifier (is_supported), the type conversion table, the call          *)
(* expression synthesizers and the dispatch / test-case emitters.          *)
(*                                                                         *)
(* Text is modelled structurally: a Python string that the code inspects   *)
(* (str(func), str(func.name)) is a sequence of tokens, and generated      *)
(* source text is a sequence of statements / blocks.                       *)
(***************************************************************************)
EXTENDS Integers, Sequences, FiniteSets, TLC

VARIABLES
    call,      \* the function or method being executed, "none" before any call
    groups,    \* its group argument(s), as a list
    idx,       \* position of the for loop of a GenOp* method (1-based)
    variants,  \* generated_type_variants
    log,       \* the messages passed to logger.info, in order
    trace,     \* is_supported / per-group generator invocations of a GenOp* method
    status,    \* "idle", "running", "returned" or "raised"
    result     \* the value returned

vars == <<call, groups, idx, variants, log, trace, status, result>>

----------------------------------------------------------------------------
(* Bounds of the model *)

\* longest non-output argument list of an out / view schema
MaxArgs == 2
\* longest argument list of a functional schema
MaxFuncArgs == 1
\* largest number of output arguments of an out schema (there is at least one)
MaxOut == 2
\* longest list of groups handed to a GenOpDispatcher / GenOpTestCase method
MaxGroups == 2
\* largest round index handed to test_value_expression (rounds are 0..MaxIndex)
MaxIndex == 2

----------------------------------------------------------------------------
(* Generic sequence helpers *)

SeqsUpTo(S, n) == UNION {[1..k -> S] : k \in 0..n}

\* s.endswith(suffix) on token sequences
EndsWith(s, suffix) ==
    /\ Len(suffix) <= Len(s)
    /\ SubSeq(s, Len(s) - Len(suffix) + 1, Len(s)) = suffix

\* s.find(tok): 1-based position of the first occurrence, 0 when absent
Find(s, tok) ==
    IF \E i \in 1..Len(s) : s[i] = tok
    THEN CHOOSE i \in 1..Len(s) : s[i] = tok /\ \A j \in 1..(i - 1) : s[j] # tok
    ELSE 0

\* sep.join(parts), each part a token sequence
RECURSIVE Join(_, _)
Join(parts, sep) ==
    IF Len(parts) = 0 THEN <<>>
    ELSE IF Len(parts) = 1 THEN parts[1]
    ELSE parts[1] \o <<sep>> \o Join(Tail(parts), sep)

----------------------------------------------------------------------------
(* torchgen.model data: types, annotations, arguments, schemas *)

BaseType(n) == [tag |-> "BaseType", name |-> n]
OptionalType(t) == [tag |-> "OptionalType", elem |-> t]
ListType(t) == [tag |-> "ListType", elem |-> t]

\* Optional[Annotation] is a sequence of length 0 (None) or 1
NoAnnotation == <<>>
Annotation(a, w) == <<[alias_set |-> <<a>>, is_write |-> w]>>

Argument(n, t, a) == [cls |-> "Argument", name |-> n, type |-> t, annotation |-> a]
\* SelfArgument wraps an Argument: its name is reached as arg.argument.name
SelfArgument(a) == [cls |-> "SelfArgument", argument |-> a]

\* FunctionSchema.schema_order_arguments(): the flat list of Arguments
FlatArg(a) == IF a.cls = "SelfArgument" THEN a.argument ELSE a
schema_order_arguments(func) ==
    [i \in 1..Len(func.non_out) |-> FlatArg(func.non_out[i])] \o func.out

is_out_fn(func) == Len(func.out) > 0

RECURSIVE TypeStr(_)
TypeStr(t) ==
    IF t.tag = "BaseType" THEN t.name
    ELSE IF t.tag = "OptionalType" THEN TypeStr(t.elem) \o "?"
    ELSE TypeStr(t.elem) \o "[]"

AnnotationStr(a) ==
    IF a = NoAnnotation THEN ""
    ELSE "(" \o a[1].alias_set[1] \o (IF a[1].is_write THEN "!" ELSE "") \o ")"

\* str(Argument): "<type><annotation> <name>", two tokens
ArgStr(a) == <<TypeStr(a.type) \o AnnotationStr(a.annotation), a.name>>

\* str(OperatorName): base, then "." and the overload name when there is one
NameStr(func) ==
    IF func.overload = "" THEN <<func.base>> ELSE <<func.base, ".", func.overload>>

ReturnStr(r) == TypeStr(r.type) \o AnnotationStr(r.annotation)

ReturnsStr(rs) ==
    IF Len(rs) = 1 THEN <<ReturnStr(rs[1])>>
    ELSE <<"(">> \o Join([i \in 1..Len(rs) |-> <<ReturnStr(rs[i])>>], ",") \o <<")">>

\* str(FunctionSchema): name(args, *, out args) -> returns
SchemaStr(func) ==
    LET pos == [i \in 1..Len(func.non_out) |-> ArgStr(FlatArg(func.non_out[i]))]
        kw  == IF Len(func.out) = 0 THEN <<>>
               ELSE <<<<"*">>>> \o [i \in 1..Len(func.out) |-> ArgStr(func.out[i])]
    IN  NameStr(func) \o <<"(">> \o Join(pos \o kw, ",") \o <<")", "->">>
        \o ReturnsStr(func.returns)

----------------------------------------------------------------------------
(* torchgen.api.cpp.returns_type(rs).cpp_type() *)

returntype_cpp_type(r) ==
    IF r.type = BaseType("Tensor")
    THEN IF r.annotation # NoAnnotation /\ r.annotation[1].is_write
         THEN "at::Tensor &" ELSE "at::Tensor"
    ELSE IF r.type = ListType(BaseType("Tensor")) THEN "::std::vector<at::Tensor>"
    ELSE "other"

returns_type_cpp_type(rs) ==
    IF Len(rs) = 0 THEN "void"
    ELSE IF Len(rs) = 1 THEN returntype_cpp_type(rs[1])
    ELSE "::std::tuple"

----------------------------------------------------------------------------
(* has_alias *)

\* getattr(arg, "annotation", None): a SelfArgument has no such attribute
GetAnnotation(arg) == IF "annotation" \in DOMAIN arg THEN arg.annotation ELSE NoAnnotation

has_alias(arguments) ==
    \E i \in 1..Len(arguments) :
        LET annotation == GetAnnotation(arguments[i])
        IN  /\ annotation # NoAnnotation
            /\ annotation[1].alias_set # <<>>

----------------------------------------------------------------------------
(* Static tables *)

BLOCKED_OPS ==
    {"sparse_sampled_addmm", "hspmm", "sspaddmm", "coalesce", "_indices", "indices",
     "_values", "values", "crow_indices", "col_indices", "floor_divide", "ger",
     "conj_physical", "binary_cross_entropy", "arccosh", "cholesky", "lu_solve",
     "linalg_cholesky", "linalg_householder_product", "linalg_ldl_solve",
     "_compute_linear_combination", "_make_dual", "_fw_primal", "_index_reduce"}

\* type_conversion_methods: BaseTy -> ((is_reference, method), (is_reference, method))
type_conversion_methods ==
    [Tensor     |-> <<[is_reference |-> TRUE,  method |-> "toTensor()"],
                      [is_reference |-> FALSE, method |-> "toOptional<at::Tensor>()"]>>,
     int        |-> <<[is_reference |-> FALSE, method |-> "toInt()"],
                      [is_reference |-> FALSE, method |-> "toOptional<int64_t>()"]>>,
     bool       |-> <<[is_reference |-> FALSE, method |-> "toBool()"],
                      [is_reference |-> FALSE, method |-> "toOptional<bool>()"]>>,
     Scalar     |-> <<[is_reference |-> FALSE, method |-> "toScalar()"],
                      [is_reference |-> FALSE, method |-> "toOptional<at::Scalar>()"]>>,
     ScalarType |-> <<[is_reference |-> FALSE, method |-> "toScalarType()"],
                      [is_reference |-> FALSE, method |-> "toOptional<at::ScalarType>()"]>>,
     str        |-> <<[is_reference |-> FALSE, method |-> "toStringView()"],
                      [is_reference |-> FALSE, method |-> "toOptional<c10::string_view>()"]>>]

\* no_memory_resize_ops, each name as the tokens of str(OperatorName)
no_memory_resize_ops ==
    {<<"isin", ".", "Scalar_Tensor">>, <<"index_add">>, <<"dot">>, <<"vdot">>,
     <<"nuclear_norm">>, <<"histc">>, <<"l1_loss">>, <<"multi_margin_loss">>,
     <<"multilabel_margin_loss">>, <<"nll_loss">>, <<"nll_loss2d">>}

----------------------------------------------------------------------------
(* ivalue_type_conversion_method: <<>> is None, <<rule>> is a rule *)

ivalue_type_conversion_method(arg_type) ==
    IF arg_type.tag = "BaseType"
    THEN IF arg_type.name \in DOMAIN type_conversion_methods
         THEN <<type_conversion_methods[arg_type.name][1]>>
         ELSE <<>>
    ELSE IF arg_type.tag = "OptionalType"
    THEN IF arg_type.elem.tag # "BaseType" THEN <<>>
         ELSE IF arg_type.elem.name \in DOMAIN type_conversion_methods
         THEN <<type_conversion_methods[arg_type.elem.name][2]>>
         ELSE <<>>
    ELSE <<>>

----------------------------------------------------------------------------
(* is_supported: the return value and the messages passed to logger.info *)

LogEntry(tag, about) == [tag |-> tag, about |-> about]

Verdict(ret, entries) == [ret |-> ret, log |-> entries]

\* variant: the loop looks at the first argument only
UnsupportedArg_FirstOnly(func) ==
    /\ Len(schema_order_arguments(func)) > 0
    /\ ivalue_type_conversion_method(schema_order_arguments(func)[1].type) = <<>>

\* some argument of func has no conversion method (the body of the for loops)
UnsupportedArg(func) ==
    \E i \in 1..Len(schema_order_arguments(func)) :
        ivalue_type_conversion_method(schema_order_arguments(func)[i].type) = <<>>

\* variant: the functional schema's arguments are not looked at
FunctionalArgsUnsupported_Skipped(g) == FALSE

\* the loop over g.functional.func.schema_order_arguments() of an out-variant group
FunctionalArgsUnsupported(g) == UnsupportedArg(g.functional)

\* the unstructured out-variant check
LacksOutVariantSignature(g, func) ==
    \/ "out" \notin DOMAIN g
    \/ ~EndsWith(SchemaStr(func), <<"Tensor(a!)", "out", ")", "->", "Tensor(a!)">>)
    \/ ~EndsWith(NameStr(func), <<".", "out">>)

\* variant: the return type of an out schema is not looked at
ReturnsOtherThanTensorRef_Skipped(func) == FALSE

\* the return type check of an out-variant group
ReturnsOtherThanTensorRef(func) == returns_type_cpp_type(func.returns) # "at::Tensor &"

is_supported(g) ==
    LET isview == g.cls = "NativeFunctionsViewGroup"
        func == IF isview THEN g.view ELSE g.out
        base_op_name == func.base
    IN  IF g.hand_written
        THEN Verdict(FALSE, <<LogEntry("HAND WRITTEN", <<base_op_name>>)>>)
        ELSE IF base_op_name \in BLOCKED_OPS
        THEN Verdict(FALSE, <<LogEntry("BLOCKED", <<base_op_name>>)>>)
        ELSE IF UnsupportedArg(func)
        THEN Verdict(FALSE, <<LogEntry("NOT SUPPORTED TYPE CONVERTING", SchemaStr(func))>>)
        ELSE IF isview
        THEN IF returns_type_cpp_type(func.returns) # "at::Tensor"
             THEN Verdict(FALSE, <<LogEntry("NON-TENSOR RET TYPE", SchemaStr(func))>>)
             ELSE Verdict(TRUE, <<>>)
        ELSE IF FunctionalArgsUnsupported(g)
        THEN Verdict(FALSE, <<LogEntry("NOT SUPPORTED TYPE CONVERTING",
                                       SchemaStr(g.functional))>>)
        ELSE IF ~g.structured /\ LacksOutVariantSignature(g, func)
        THEN Verdict(FALSE, <<>>)
        ELSE IF ReturnsOtherThanTensorRef(func)
        THEN Verdict(FALSE, <<LogEntry("NON_TENSOR RET TYPE", SchemaStr(func))>>)
        ELSE IF has_alias(func.non_out)
        THEN Verdict(FALSE, <<LogEntry("INPUTS ALIAS", <<base_op_name>>)>>)
        ELSE Verdict(TRUE, <<>>)

----------------------------------------------------------------------------
(* Results of functions that may fail an assertion *)

Raised == [raised |-> TRUE, text |-> <<>>]
Ok(t) == [raised |-> FALSE, text |-> t]

----------------------------------------------------------------------------
(* Backend index and kernel names.  One fixed backend index is modelled:   *)
(* it binds a kernel to the operators of KernelOps and to no other.        *)

KernelOps == {"dot", "isin", "view_as_real"}

BackendIndex == [kernels |-> KernelOps]

\* torchgen.api.cpp.name(func)
cpp_name(func) == IF is_out_fn(func) THEN func.base \o "_out" ELSE func.base

\* BackendIndex.get_kernel(f).kernel, <<>> when there is no kernel
get_kernel(backend_index, func) ==
    IF func.base \in backend_index.kernels THEN <<"kernel_" \o cpp_name(func)>> ELSE <<>>

get_kernel_name(g, backend_index) ==
    LET kernel == get_kernel(backend_index, g.functional)
    IN  IF g.structured \/ kernel = <<>> THEN cpp_name(g.functional) ELSE kernel[1]

get_out_kernel_name(g, backend_index) ==
    LET kernel == get_kernel(backend_index, g.out)
    IN  IF g.structured \/ kernel = <<>> THEN cpp_name(g.out) ELSE kernel[1]

CallExpr(ns, kernel, names) == [namespace |-> ns, kernel |-> kernel, args |-> names]

----------------------------------------------------------------------------
(* Call expression synthesizers *)

generate_arg_extraction(schema) ==
    LET args == schema_order_arguments(schema)
    IN  IF \E i \in 1..Len(args) : ivalue_type_conversion_method(args[i].type) = <<>>
        THEN Raised
        ELSE Ok([i \in 1..Len(args) |->
                    LET m == ivalue_type_conversion_method(args[i].type)[1]
                    IN  [stmt |-> "extract", reference |-> m.is_reference,
                         name |-> args[i].name, input |-> i - 1, method |-> m.method]])

generate_non_out_variant_call(g, backend_index) ==
    LET schema == g.functional
        args == schema_order_arguments(schema)
    IN  IF is_out_fn(schema) THEN Raised
        ELSE Ok(CallExpr(IF g.structured THEN "cpu" ELSE "native",
                         get_kernel_name(g, backend_index),
                         [i \in 1..Len(args) |-> args[i].name]))

generate_call_to_view_ops(g, backend_index) ==
    LET schema == g.view
        kernel == get_kernel(backend_index, schema)
        args == schema_order_arguments(schema)
    IN  CallExpr("native",
                 IF kernel # <<>> THEN kernel[1] ELSE cpp_name(schema),
                 [i \in 1..Len(args) |-> args[i].name])

\* variant: the output arguments are appended last whether or not g is structured
generate_out_variant_call_OutLast(g, backend_index) ==
    LET schema == g.out
        middle == [i \in 1..Len(schema.non_out) |-> FlatArg(schema.non_out[i]).name]
    IN  IF ~is_out_fn(schema) THEN Raised
        ELSE IF ~g.structured /\ Len(schema.out) # 1 THEN Raised
        ELSE Ok(CallExpr(IF g.structured THEN "cpu" ELSE "native",
                         get_out_kernel_name(g, backend_index),
                         middle \o [i \in 1..Len(schema.out) |-> schema.out[i].name]))

generate_out_variant_call(g, backend_index) ==
    LET schema == g.out
        first == IF g.structured
                 THEN [i \in 1..Len(schema.out) |-> schema.out[i].name]
                 ELSE <<>>
        middle == [i \in 1..Len(schema.non_out) |->
                      IF schema.non_out[i].cls = "SelfArgument"
                      THEN schema.non_out[i].argument.name
                      ELSE schema.non_out[i].name]
    IN  IF ~is_out_fn(schema) THEN Raised
        ELSE IF \E i \in 1..Len(schema.non_out) :
                    schema.non_out[i].cls \notin {"SelfArgument", "Argument"}
        THEN Raised
        ELSE IF ~g.structured /\ Len(schema.out) # 1 THEN Raised
        ELSE Ok(CallExpr(IF g.structured THEN "cpu" ELSE "native",
                         get_out_kernel_name(g, backend_index),
                         first \o middle
                         \o (IF g.structured THEN <<>> ELSE <<schema.out[1].name>>)))

\* variant: the denylist is looked up by the base operator name
should_check_resize_ByBase(schema) == <<schema.base>> \notin no_memory_resize_ops

should_check_resize(schema) ==
    LET schema_str == SchemaStr(schema)
        type_variant_op_name == SubSeq(schema_str, 1, Find(schema_str, "(") - 1)
    IN  type_variant_op_name \notin no_memory_resize_ops

op_name_from_group(g) == g.functional.base

----------------------------------------------------------------------------
(* GenOpDispatcher: per-group closures *)

\* variant: the resize step is emitted only for operators outside no_memory_resize_ops
ResizeStep_Gated(g, out_variable_name) ==
    IF should_check_resize(g.functional)
    THEN <<[stmt |-> "fastResizeToZero", name |-> out_variable_name]>>
    ELSE <<>>

\* the statement of the closure that zeroes the reused output
ResizeStep(g, out_variable_name) ==
    <<[stmt |-> "fastResizeToZero", name |-> out_variable_name]>>

out_variant_op_generator(g, backend_index) ==
    LET populated_argument == generate_arg_extraction(g.functional)
        functional_variant_call == generate_non_out_variant_call(g, backend_index)
        out_variant_call == generate_out_variant_call(g, backend_index)
    IN  IF populated_argument.raised THEN Raised
        ELSE IF functional_variant_call.raised THEN Raised
        ELSE IF Len(g.out.out) # 1 THEN Raised
        ELSE IF out_variant_call.raised THEN Raised
        ELSE LET out_variable_name == g.out.out[1].name
             IN  Ok([matches |-> SchemaStr(g.functional),
                     body |-> populated_argument.text
                         \o <<[stmt |-> "store_if_none",
                               call |-> functional_variant_call.text],
                              [stmt |-> "bind_output", name |-> out_variable_name]>>
                         \o ResizeStep(g, out_variable_name)
                         \o <<[stmt |-> "out_call", call |-> out_variant_call.text]>>])

view_op_generator(g, backend_index) ==
    LET populated_argument == generate_arg_extraction(g.view)
        functional_variant_call == generate_call_to_view_ops(g, backend_index)
    IN  IF populated_argument.raised THEN Raised
        ELSE Ok([matches |-> SchemaStr(g.view),
                 body |-> populated_argument.text
                     \o <<[stmt |-> "store", call |-> functional_variant_call]>>])

----------------------------------------------------------------------------
(* Test value synthesis *)

should_use_int_tensor_ops_ ==
    {"bitwise_not", "bitwise_and", "bitwise_or", "bitwise_xor", "bitwise_left_shift",
     "bitwise_right_shift", "gcd", "lcm", "scatter", "gather",
     "_convert_indices_from_coo_to_csr", "_convert_indices_from_csr_to_coo"}

should_use_complex_tensor_ops_ == {"view_as_real", "imag", "_conj"}

should_use_int_tensor(op_name) == op_name \in should_use_int_tensor_ops_

should_use_complex_tensor(op_name) == op_name \in should_use_complex_tensor_ops_

test_tensor_dim_ops_1_ ==
    {"addmv", "index_add", "_convert_indices_from_coo_to_csr",
     "_convert_indices_from_csr_to_coo", "nll_loss_backward", "dot", "vdot", "outer",
     "ger"}

test_tensor_dim_ops_2_ ==
    {"addmm", "mm", "nuclear_norm", "diag", "_addmm_activation", "matrix_H", "t"}

\* variant: an operator in neither table gets two dimensions
test_tensor_dim_DefaultTwo(op_name) ==
    IF op_name \in test_tensor_dim_ops_1_ THEN 1 ELSE 2

test_tensor_dim(op_name) ==
    IF op_name \in test_tensor_dim_ops_1_ THEN 1
    ELSE IF op_name \in test_tensor_dim_ops_2_ THEN 2
    ELSE 3

\* test_tensor_shape_json: op name -> shape; <<>> stands for the "" of a missing entry
test_tensor_shape(op_name) ==
    IF op_name = "view_as_complex" THEN <<2, 2>> ELSE <<>>

\* math.ceil(a / float(b)) for positive integers
CeilDiv(a, b) == (a + b - 1) \div b

value_expressions ==
    [Tensor |-> "tensor", int |-> "1", bool |-> "false", Scalar |-> "2",
     ScalarType |-> "at::ScalarType::Float", str |-> "\"floor\""]

test_value_expression(arg_type, index, op_name) ==
    LET override == test_tensor_shape(op_name)
        num_tensors == IF index = 0 THEN 16 ELSE 64
        num_dim == test_tensor_dim(op_name)
        ceiled == CeilDiv(num_tensors, num_dim)
        size_per_dim == ceiled + (ceiled % 2)
        tensor_size_ex == IF override = <<>>
                          THEN [i \in 1..num_dim |-> size_per_dim]
                          ELSE override
        tensor_expression ==
            IF should_use_int_tensor(op_name)
            THEN [fn |-> "at::randint", shape |-> tensor_size_ex, dtype |-> "at::kInt"]
            ELSE IF should_use_complex_tensor(op_name)
            THEN [fn |-> "at::randn", shape |-> tensor_size_ex, dtype |-> "at::kComplexFloat"]
            ELSE [fn |-> "at::rand", shape |-> tensor_size_ex, dtype |-> ""]
        known == arg_type.tag = "BaseType" \/
                 (arg_type.tag = "OptionalType" /\ arg_type.elem.tag = "BaseType")
        base_ty_object == IF arg_type.tag = "BaseType" THEN arg_type.name
                          ELSE arg_type.elem.name
    IN  IF ~known THEN Raised
        ELSE IF base_ty_object \notin DOMAIN value_expressions THEN Raised
        ELSE IF base_ty_object = "Tensor" THEN Ok(tensor_expression)
        ELSE Ok([literal |-> value_expressions[base_ty_object]])

generate_test_value_definitions(schema, index) ==
    LET args == schema_order_arguments(schema)
        exps == [i \in 1..Len(args) |->
                    test_value_expression(args[i].type, index, schema.base)]
    IN  IF is_out_fn(schema) THEN Raised
        ELSE IF \E i \in 1..Len(args) : exps[i].raised THEN Raised
        ELSE Ok([i \in 1..Len(args) |->
                    [name |-> args[i].name, round |-> index, value |-> exps[i].text]])

generate_test_value_names(schema, index) ==
    LET args == schema_order_arguments(schema)
    IN  IF is_out_fn(schema) THEN Raised
        ELSE Ok([i \in 1..Len(args) |-> [name |-> args[i].name, round |-> index]])

generate_test_ir_arguments_base_ty_to_type_str_ ==
    [Tensor |-> "Tensor", int |-> "int", float |-> "float", str |-> "str",
     Scalar |-> "int", ScalarType |-> "int", bool |-> "bool"]

\* <<>> stands for a type_str of None
ir_argument(arg) ==
    LET add_optional == arg.type.tag = "OptionalType"
        t == IF add_optional THEN arg.type.elem ELSE arg.type
        type_str == IF t.name \in DOMAIN generate_test_ir_arguments_base_ty_to_type_str_
                    THEN <<generate_test_ir_arguments_base_ty_to_type_str_[t.name]
                           \o (IF add_optional THEN "?" ELSE "")>>
                    ELSE <<>>
    IN  IF t.tag # "BaseType" THEN Raised
        ELSE Ok([name |-> "%" \o arg.name, type |-> type_str])

generate_test_ir_arguments(schema) ==
    LET args == schema_order_arguments(schema)
    IN  IF \E i \in 1..Len(args) : ir_argument(args[i]).raised THEN Raised
        ELSE Ok([i \in 1..Len(args) |-> ir_argument(args[i]).text])

\* s.replace(".", "_") on a token sequence
ReplaceDots(s) == [i \in 1..Len(s) |-> IF s[i] = "." THEN "_" ELSE s[i]]

\* the assertion on schema.returns shared by both test case generators
ReturnsOneTensor(schema) ==
    /\ Len(schema.returns) = 1
    /\ schema.returns[1].type.tag = "BaseType"
    /\ schema.returns[1].type.name = "Tensor"

----------------------------------------------------------------------------
(* GenOpTestCase: per-group test blocks *)

\* the check_resize literal of the two harness invocations
CheckResizeLiterals(schema) ==
    LET check_resize == IF should_check_resize(schema) THEN "true" ELSE "false"
    IN  <<check_resize, check_resize>>

out_variant_op_test_case_generator(g) ==
    LET schema == g.functional
        schema_str == SchemaStr(schema)
        paren == Find(schema_str, "(")
        type_variant_op_name == ReplaceDots(SubSeq(schema_str, 1, paren - 1))
        op_name == op_name_from_group(g)
        arg_types == generate_test_ir_arguments(schema)
        defs0 == generate_test_value_definitions(schema, 0)
        names0 == generate_test_value_names(schema, 0)
        defs1 == generate_test_value_definitions(schema, 1)
        names1 == generate_test_value_names(schema, 1)
        check_resize == CheckResizeLiterals(schema)
    IN  IF paren <= 1 THEN Raised
        ELSE IF type_variant_op_name[1] # op_name THEN Raised
        ELSE IF arg_types.raised THEN Raised
        ELSE IF ~ReturnsOneTensor(schema) THEN Raised
        ELSE IF defs0.raised \/ names0.raised \/ defs1.raised \/ names1.raised THEN Raised
        ELSE Ok([test |-> type_variant_op_name,
                 graph |-> arg_types.text,
                 op |-> op_name,
                 rounds |->
                    <<[definitions |-> defs0.text, args |-> names0.text,
                       harness |-> [args |-> "args", args2 |-> "{}",
                                    check_resize |-> check_resize[1]]],
                      [definitions |-> defs1.text, args |-> names1.text,
                       harness |-> [args |-> "args", args2 |-> "args2",
                                    check_resize |-> check_resize[2]]]>>])

view_op_test_case_generator(g) ==
    LET schema == g.view
        schema_str == SchemaStr(schema)
        paren == Find(schema_str, "(")
        type_variant_op_name == ReplaceDots(SubSeq(schema_str, 1, paren - 1))
        op_name == schema.base
        arg_types == generate_test_ir_arguments(schema)
        defs0 == generate_test_value_definitions(schema, 0)
        names0 == generate_test_value_names(schema, 0)
    IN  IF paren <= 1 THEN Raised
        ELSE IF type_variant_op_name[1] # op_name THEN Raised
        ELSE IF arg_types.raised THEN Raised
        ELSE IF ~ReturnsOneTensor(schema) THEN Raised
        ELSE IF defs0.raised \/ names0.raised THEN Raised
        ELSE Ok([test |-> type_variant_op_name,
                 graph |-> arg_types.text,
                 op |-> op_name,
                 rounds |->
                    <<[definitions |-> defs0.text, args |-> names0.text,
                       harness |-> [args |-> "args"]]>>])

----------------------------------------------------------------------------
(* Inputs: the operator groups the model draws from *)

Tensor == BaseType("Tensor")
IntList == ListType(BaseType("int"))

\* [base, overload of the functional schema, overload of the out schema,
\*  name of a single output argument]
OpNames ==
    {[base |-> "dot", overload |-> "", out_overload |-> "out", out_name |-> "out"],
     [base |-> "ger", overload |-> "", out_overload |-> "out", out_name |-> "out"],
     [base |-> "isin", overload |-> "Scalar_Tensor",
      out_overload |-> "Scalar_Tensor_out", out_name |-> "out"],
     [base |-> "index_add", overload |-> "dimname", out_overload |-> "out",
      out_name |-> "out"],
     [base |-> "nll_loss_backward", overload |-> "", out_overload |-> "grad_input",
      out_name |-> "grad_input"]}

ViewNames ==
    {[base |-> "view_as_real", overload |-> ""],
     [base |-> "values", overload |-> ""],
     [base |-> "transpose", overload |-> "int"]}

\* shapes of the non-output arguments of an out schema
NonOutShapes ==
    {[self |-> s, type |-> Tensor, alias |-> a] : s \in BOOLEAN, a \in BOOLEAN}
    \cup {[self |-> FALSE, type |-> IntList, alias |-> FALSE]}

\* self, when present, is the first argument
NonOutShapeSeqs ==
    {ss \in SeqsUpTo(NonOutShapes, MaxArgs) : \A i \in 2..Len(ss) : ~ss[i].self}

FuncTypes == {Tensor, OptionalType(BaseType("int")), IntList}

ViewTypes ==
    {Tensor, OptionalType(BaseType("int")), BaseType("float"),
     OptionalType(BaseType("float")), OptionalType(IntList), IntList}

ArgName(i) == "arg" \o ToString(i)

MkNonOut(shapes) ==
    [i \in 1..Len(shapes) |->
        LET ann == IF shapes[i].alias THEN Annotation("s", FALSE) ELSE NoAnnotation
        IN  IF shapes[i].self
            THEN SelfArgument(Argument("self", shapes[i].type, ann))
            ELSE Argument(ArgName(i), shapes[i].type, ann)]

MkPlainArgs(types) ==
    [i \in 1..Len(types) |-> Argument(ArgName(i), types[i], NoAnnotation)]

\* a view schema takes the viewed tensor as self
MkViewArgs(types) ==
    <<SelfArgument(Argument("self", Tensor, Annotation("a", FALSE)))>>
    \o MkPlainArgs(types)

AliasLetter(i) == <<"a", "b", "c", "d">>[i]

MkOut(n, single_name) ==
    [i \in 1..n |->
        Argument(IF n = 1 THEN single_name ELSE "out" \o ToString(i - 1),
                 Tensor, Annotation(AliasLetter(i), TRUE))]

\* an out schema returns its output arguments, or nothing
MkOutReturns(outs, void) ==
    IF void THEN <<>>
    ELSE [i \in 1..Len(outs) |-> [type |-> Tensor, annotation |-> outs[i].annotation]]

Schema(base, overload, non_out, out, returns) ==
    [base |-> base, overload |-> overload, non_out |-> non_out, out |-> out,
     returns |-> returns]

\* the functional schema returns as many tensors as the out schema has outputs
MkFunctionalReturns(n) == [i \in 1..n |-> [type |-> Tensor, annotation |-> NoAnnotation]]

NativeFunctionsGroup(nm, hw, structured, shapes, n, void, ftypes) ==
    [cls |-> "NativeFunctionsGroup", hand_written |-> hw, structured |-> structured,
     functional |-> Schema(nm.base, nm.overload, MkPlainArgs(ftypes), <<>>,
                           MkFunctionalReturns(n)),
     out |-> Schema(nm.base, nm.out_overload, MkNonOut(shapes), MkOut(n, nm.out_name),
                    MkOutReturns(MkOut(n, nm.out_name), void))]

NativeFunctionsViewGroup(nm, hw, types, list_ret) ==
    [cls |-> "NativeFunctionsViewGroup", hand_written |-> hw,
     view |-> Schema(nm.base, nm.overload, MkViewArgs(types), <<>>,
                     <<[type |-> IF list_ret THEN ListType(Tensor) ELSE Tensor,
                        annotation |-> Annotation("a", FALSE)]>>)]

OutGroups ==
    {NativeFunctionsGroup(nm, hw, st, shapes, n, void, ftypes) :
        nm \in OpNames, hw \in BOOLEAN, st \in BOOLEAN, shapes \in NonOutShapeSeqs,
        n \in 1..MaxOut, void \in BOOLEAN, ftypes \in SeqsUpTo(FuncTypes, MaxFuncArgs)}

ViewGroups ==
    {NativeFunctionsViewGroup(nm, hw, types, lr) :
        nm \in ViewNames, hw \in BOOLEAN, types \in SeqsUpTo(ViewTypes, MaxArgs - 1),
        lr \in BOOLEAN}

Groups == OutGroups \cup ViewGroups

\* the arguments of a direct call of test_value_expression
TestArgTypes == ViewTypes \cup {OptionalType(Tensor)}

TestOpNames == {"dot", "mm", "isin", "view_as_complex", "bitwise_not", "view_as_real"}

TestValueArgs ==
    {[arg_type |-> t, index |-> i, op_name |-> n] :
        t \in TestArgTypes, i \in 0..MaxIndex, n \in TestOpNames}

\* the groups that lists handed to the GenOp* methods are built from
DriverGroups ==
    {NativeFunctionsGroup(nm, FALSE, TRUE,
                          <<[self |-> TRUE, type |-> Tensor, alias |-> FALSE]>>,
                          1, FALSE, <<Tensor>>) : nm \in OpNames}
    \cup {NativeFunctionsViewGroup(nm, FALSE, <<>>, lr) : nm \in ViewNames, lr \in BOOLEAN}

GroupLists == SeqsUpTo(DriverGroups, MaxGroups)

----------------------------------------------------------------------------
(* GenOpDispatcher.out_variant / view, GenOpTestCase.out_variant / view *)

Methods ==
    {"GenOpDispatcher.out_variant", "GenOpDispatcher.view",
     "GenOpTestCase.out_variant", "GenOpTestCase.view"}

\* the class of the isinstance assertion of each method
ExpectedCls(m) ==
    IF m \in {"GenOpDispatcher.out_variant", "GenOpTestCase.out_variant"}
    THEN "NativeFunctionsGroup" ELSE "NativeFunctionsViewGroup"

\* the per-group generator each method calls
PerGroupGenerator(m, g) ==
    IF m = "GenOpDispatcher.out_variant" THEN out_variant_op_generator(g, BackendIndex)
    ELSE IF m = "GenOpDispatcher.view" THEN view_op_generator(g, BackendIndex)
    ELSE IF m = "GenOpTestCase.out_variant" THEN out_variant_op_test_case_generator(g)
    ELSE view_op_test_case_generator(g)

Supported(at, ret) == [ev |-> "is_supported", at |-> at, ret |-> ret]
Generated(at) == [ev |-> "generate", at |-> at]

\* variant: the assertions are compiled out, the generator runs on every group
LoopBody_NoAssert(m, g, at) ==
    LET v == is_supported(g)
        gen == PerGroupGenerator(m, g)
    IN  IF g.cls # ExpectedCls(m) \/ gen.raised
        THEN [raised |-> TRUE, log |-> v.log, trace |-> <<Supported(at, v.ret)>>,
              variant |-> <<>>]
        ELSE [raised |-> FALSE, log |-> v.log,
              trace |-> <<Supported(at, v.ret), Generated(at)>>, variant |-> <<gen.text>>]

\* variant: a failing group is skipped and the loop goes on
LoopBody_Skip(m, g, at) ==
    LET v == is_supported(g)
        gen == PerGroupGenerator(m, g)
    IN  IF ~v.ret \/ g.cls # ExpectedCls(m)
        THEN [raised |-> FALSE, log |-> v.log, trace |-> <<Supported(at, v.ret)>>,
              variant |-> <<>>]
        ELSE IF gen.raised
        THEN [raised |-> FALSE, log |-> v.log,
              trace |-> <<Supported(at, TRUE), Generated(at)>>, variant |-> <<>>]
        ELSE [raised |-> FALSE, log |-> v.log,
              trace |-> <<Supported(at, TRUE), Generated(at)>>, variant |-> <<gen.text>>]

\* one iteration of the for loop: the two assertions, then the generator
LoopBody(m, g, at) ==
    LET v == is_supported(g)
        gen == PerGroupGenerator(m, g)
    IN  IF ~v.ret
        THEN [raised |-> TRUE, log |-> v.log, trace |-> <<Supported(at, FALSE)>>,
              variant |-> <<>>]
        ELSE IF g.cls # ExpectedCls(m)
        THEN [raised |-> TRUE, log |-> v.log, trace |-> <<Supported(at, TRUE)>>,
              variant |-> <<>>]
        ELSE IF gen.raised
        THEN [raised |-> TRUE, log |-> v.log,
              trace |-> <<Supported(at, TRUE), Generated(at)>>, variant |-> <<>>]
        ELSE [raised |-> FALSE, log |-> v.log,
              trace |-> <<Supported(at, TRUE), Generated(at)>>, variant |-> <<gen.text>>]

NoResult == [kind |-> "none"]
Text(t) == [kind |-> "text", text |-> t]
Bool(b) == [kind |-> "bool", ret |-> b]

RECURSIVE Dedup(_)
Dedup(vs) ==
    IF Len(vs) = 0 THEN <<>>
    ELSE <<Head(vs)>> \o Dedup(SelectSeq(Tail(vs), LAMBDA v : v # Head(vs)))

\* variant: a closure generated twice is emitted once
Emit_Dedup(m, gs, vs) ==
    IF m = "GenOpDispatcher.out_variant"
    THEN Text(<<[macro |-> "REGISTER_OPERATOR_FUNCTOR",
                 op_name |-> op_name_from_group(gs[1]), body |-> Dedup(vs)]>>)
    ELSE IF m = "GenOpDispatcher.view"
    THEN Text(<<[macro |-> "REGISTER_NATIVE_OPERATOR_FUNCTOR",
                 op_name |-> gs[1].view.base, body |-> Dedup(vs)]>>)
    ELSE Text(Dedup(vs))

\* the text a method returns once its loop has run over every group
Emit(m, gs, vs) ==
    IF m = "GenOpDispatcher.out_variant"
    THEN Text(<<[macro |-> "REGISTER_OPERATOR_FUNCTOR",
                 op_name |-> op_name_from_group(gs[1]), body |-> vs]>>)
    ELSE IF m = "GenOpDispatcher.view"
    THEN Text(<<[macro |-> "REGISTER_NATIVE_OPERATOR_FUNCTOR",
                 op_name |-> gs[1].view.base, body |-> vs]>>)
    ELSE Text(vs)

----------------------------------------------------------------------------
(* The state machine *)

Init ==
    /\ call = "none"
    /\ groups = <<>>
    /\ idx = 0
    /\ variants = <<>>
    /\ log = <<>>
    /\ trace = <<>>
    /\ status = "idle"
    /\ result = NoResult

\* a finished call of a function on one group
Finished(fn, g, entries, raised, value) ==
    /\ call' = fn
    /\ groups' = <<g>>
    /\ log' = entries
    /\ status' = IF raised THEN "raised" ELSE "returned"
    /\ result' = IF raised THEN NoResult ELSE value
    /\ UNCHANGED <<idx, variants, trace>>

CallIsSupported ==
    /\ status = "idle"
    /\ \E g \in Groups :
        Finished("is_supported", g, is_supported(g).log, FALSE, Bool(is_supported(g).ret))

CallGenerateOutVariantCall ==
    /\ status = "idle"
    /\ \E g \in OutGroups :
        LET r == generate_out_variant_call(g, BackendIndex)
        IN  Finished("generate_out_variant_call", g, <<>>, r.raised, Text(r.text))

CallOutVariantOpGenerator ==
    /\ status = "idle"
    /\ \E g \in OutGroups :
        LET r == out_variant_op_generator(g, BackendIndex)
        IN  Finished("out_variant_op_generator", g, <<>>, r.raised, Text(r.text))

CallViewOpGenerator ==
    /\ status = "idle"
    /\ \E g \in ViewGroups :
        LET r == view_op_generator(g, BackendIndex)
        IN  Finished("view_op_generator", g, <<>>, r.raised, Text(r.text))

CallOutVariantOpTestCaseGenerator ==
    /\ status = "idle"
    /\ \E g \in OutGroups :
        LET r == out_variant_op_test_case_generator(g)
        IN  Finished("out_variant_op_test_case_generator", g, <<>>, r.raised, Text(r.text))

CallViewOpTestCaseGenerator ==
    /\ status = "idle"
    /\ \E g \in ViewGroups :
        LET r == view_op_test_case_generator(g)
        IN  Finished("view_op_test_case_generator", g, <<>>, r.raised, Text(r.text))

CallTestValueExpression ==
    /\ status = "idle"
    /\ \E a \in TestValueArgs :
        LET r == test_value_expression(a.arg_type, a.index, a.op_name)
        IN  Finished("test_value_expression", a, <<>>, r.raised, Text(r.text))

\* entry of a GenOp* method: an empty list returns "" at once
Enter ==
    /\ status = "idle"
    /\ \E m \in Methods, gs \in GroupLists :
        /\ call' = m
        /\ groups' = gs
        /\ idx' = 1
        /\ status' = IF gs = <<>> THEN "returned" ELSE "running"
        /\ result' = IF gs = <<>> THEN Text(<<>>) ELSE NoResult
        /\ UNCHANGED <<variants, log, trace>>

\* one iteration of the for loop over groups
Iterate ==
    /\ status = "running"
    /\ idx <= Len(groups)
    /\ LET step == LoopBody(call, groups[idx], idx)
       IN  /\ log' = log \o step.log
           /\ trace' = trace \o step.trace
           /\ variants' = variants \o step.variant
           /\ status' = IF step.raised THEN "raised" ELSE "running"
           /\ idx' = IF step.raised THEN idx ELSE idx + 1
    /\ UNCHANGED <<call, groups, result>>

\* after the loop: the registration block, or the joined test blocks
Return ==
    /\ status = "running"
    /\ idx > Len(groups)
    /\ status' = "returned"
    /\ result' = Emit(call, groups, variants)
    /\ UNCHANGED <<call, groups, idx, variants, log, trace>>

Next ==
    \/ CallIsSupported
    \/ CallGenerateOutVariantCall
    \/ CallOutVariantOpGenerator
    \/ CallViewOpGenerator
    \/ CallOutVariantOpTestCaseGenerator
    \/ CallViewOpTestCaseGenerator
    \/ CallTestValueExpression
    \/ Enter
    \/ Iterate
    \/ Return

Spec == Init /\ [][Next]_vars

----------------------------------------------------------------------------
(* Properties *)

\* the group of a finished call of a function on one group
TheGroup == groups[1]

ReturnedFrom(fn) == call = fn /\ status = "returned"

\* the operator's type-variant name: str() of the functional schema's OperatorName
TypeVariantName(g) == NameStr(g.functional)

HasResizeBeforeOutCall(body) ==
    \E i \in 1..Len(body), j \in 1..Len(body) :
        /\ i < j
        /\ body[i].stmt = "fastResizeToZero"
        /\ body[j].stmt = "out_call"

\* C1 as stated: the closure emitted by out_variant_op_generator holds the
\* fastResizeToZero step before the out-kernel call exactly when the operator's
\* name is outside no_memory_resize_ops.
C1_ResizeGatedByDenylist ==
    ReturnedFrom("out_variant_op_generator") =>
        (HasResizeBeforeOutCall(result.text.body)
            <=> TypeVariantName(TheGroup) \notin no_memory_resize_ops)

\* C1: every closure emitted by out_variant_op_generator, alone or inside the
\* registration block of GenOpDispatcher.out_variant, holds the fastResizeToZero
\* step before the out-kernel call, whether or not the operator's name is in
\* no_memory_resize_ops.
C1_ResizeAlwaysEmitted ==
    /\ ReturnedFrom("out_variant_op_generator") =>
          HasResizeBeforeOutCall(result.text.body)
    /\ (ReturnedFrom("GenOpDispatcher.out_variant") /\ groups # <<>>) =>
          \A i \in 1..Len(result.text[1].body) :
              HasResizeBeforeOutCall(result.text[1].body[i].body)

C1_Witness ==
    /\ ReturnedFrom("out_variant_op_generator")
    /\ TypeVariantName(TheGroup) \in no_memory_resize_ops
    /\ HasResizeBeforeOutCall(result.text.body)

OutNames(g) == {g.out.out[i].name : i \in 1..Len(g.out.out)}

NonOutNames(g) == [i \in 1..Len(g.out.non_out) |-> FlatArg(g.out.non_out[i]).name]

\* C2: in the argument list built by generate_out_variant_call every output and
\* every non-output argument occurs once; for a structured group each output
\* argument precedes each non-output argument; for an unstructured group the out
\* schema has exactly one output argument and it follows each non-output argument;
\* the non-output arguments keep schema order; an unstructured group with another
\* number of output arguments makes the call fail.
C2_OutCallArgumentOrder ==
    call = "generate_out_variant_call" =>
        LET g == TheGroup
            args == result.text.args
            outpos == {p \in 1..Len(args) : args[p] \in OutNames(g)}
            nonoutpos == {p \in 1..Len(args) : args[p] \notin OutNames(g)}
        IN  /\ status = "returned" =>
                /\ Len(args) = Len(g.out.out) + Len(g.out.non_out)
                /\ Cardinality(outpos) = Len(g.out.out)
                /\ SelectSeq(args, LAMBDA n : n \notin OutNames(g)) = NonOutNames(g)
                /\ g.structured => \A p \in outpos, q \in nonoutpos : p < q
                /\ ~g.structured =>
                      /\ Len(g.out.out) = 1
                      /\ \A p \in outpos, q \in nonoutpos : q < p
            /\ (~g.structured /\ Len(g.out.out) # 1) => status = "raised"

C2_Witness ==
    /\ ReturnedFrom("generate_out_variant_call")
    /\ TheGroup.structured
    /\ Len(TheGroup.out.out) >= 2
    /\ Len(TheGroup.out.non_out) >= 2
    /\ TheGroup.out.non_out[1].cls = "SelfArgument"

\* the schemas whose arguments the generators extract, with the out schema
ExtractedSchemas(g) ==
    IF g.cls = "NativeFunctionsViewGroup" THEN {g.view} ELSE {g.functional, g.out}

HasRule(func) ==
    \A i \in 1..Len(schema_order_arguments(func)) :
        ivalue_type_conversion_method(schema_order_arguments(func)[i].type) # <<>>

\* C3: a group accepted by is_supported has a conversion rule for every argument
\* type of its view schema (view group) or of its functional and out schemas
\* (out-variant group), and generate_arg_extraction does not fail on the schema the
\* generators extract from; a group with an argument type that has no rule is
\* rejected.
C3_AcceptedTypesHaveRules ==
    ReturnedFrom("is_supported") =>
        /\ result.ret =>
              /\ \A f \in ExtractedSchemas(TheGroup) : HasRule(f)
              /\ ~generate_arg_extraction(IF TheGroup.cls = "NativeFunctionsViewGroup"
                                          THEN TheGroup.view
                                          ELSE TheGroup.functional).raised
        /\ (\E f \in ExtractedSchemas(TheGroup) : ~HasRule(f)) => ~result.ret

C3_Witness ==
    /\ ReturnedFrom("is_supported")
    /\ result.ret
    /\ TheGroup.cls = "NativeFunctionsGroup"
    /\ Len(TheGroup.functional.non_out) >= 1
    /\ Len(TheGroup.out.non_out) >= 2

\* the loop has reached group i (it was passed to is_supported)
Visited(i) == i < idx \/ (i = idx /\ status = "raised")

\* C4: in the four GenOp* methods the per-group generator runs on a group only
\* right after is_supported returned true for that group; once is_supported is
\* false for a group the call has raised and returns no text.
C4_GeneratorOnlyAfterSupported ==
    call \in Methods =>
        /\ \A k \in 1..Len(trace) :
              trace[k].ev = "generate" =>
                  /\ k > 1
                  /\ trace[k - 1] = Supported(trace[k].at, TRUE)
                  /\ is_supported(groups[trace[k].at]).ret
        /\ \A i \in 1..Len(groups) :
              (Visited(i) /\ ~is_supported(groups[i]).ret) =>
                  /\ status = "raised"
                  /\ result = NoResult
                  /\ trace[Len(trace)] = Supported(i, FALSE)

C4_Witness ==
    /\ call \in Methods
    /\ status = "raised"
    /\ Len(trace) >= 3
    /\ trace[Len(trace)].ev = "is_supported"
    /\ ~trace[Len(trace)].ret

\* group g fails an internal-consistency check of method m
Fails(m, g) ==
    \/ ~is_supported(g).ret
    \/ g.cls # ExpectedCls(m)
    \/ PerGroupGenerator(m, g).raised

RECURSIVE VariantsOf(_, _)
VariantsOf(m, gs) ==
    IF Len(gs) = 0 THEN <<>>
    ELSE <<PerGroupGenerator(m, Head(gs)).text>> \o VariantsOf(m, Tail(gs))

\* what the call would return had the failing groups not been supplied
TextWithoutFailing(m, gs) ==
    LET kept == SelectSeq(gs, LAMBDA g : ~Fails(m, g))
    IN  IF kept = <<>> THEN Text(<<>>) ELSE Emit(m, kept, VariantsOf(m, kept))

\* C5 as stated: when a group of the list fails, the finished call still yields
\* the text of the other groups, the same as if the failing group had not been
\* supplied.
C5_OtherGroupsStillGenerated ==
    (/\ call \in Methods
     /\ status \in {"returned", "raised"}
     /\ \E i \in 1..Len(groups) : Fails(call, groups[i])
     /\ \E i \in 1..Len(groups) : ~Fails(call, groups[i])) =>
        result = TextWithoutFailing(call, groups)

\* C5: a failing group aborts the whole call: the call raises at the first failing
\* group and returns no text for any group, the variants generated for the groups
\* before it included; a call returns text only when no group of its list fails.
C5_FailureAbortsWholeCall ==
    call \in Methods =>
        /\ (\E i \in 1..Len(groups) : Visited(i) /\ Fails(call, groups[i])) =>
              (status = "raised" /\ result = NoResult)
        /\ status = "returned" =>
              /\ result.kind = "text"
              /\ \A i \in 1..Len(groups) : ~Fails(call, groups[i])

C5_Witness ==
    /\ call \in Methods
    /\ status = "raised"
    /\ Len(variants) >= 1
    /\ result = NoResult

ReasonTags ==
    {"HAND WRITTEN", "BLOCKED", "NOT SUPPORTED TYPE CONVERTING", "NON-TENSOR RET TYPE",
     "NON_TENSOR RET TYPE", "INPUTS ALIAS"}

\* C6 as stated: an execution of is_supported that returns false has logged exactly
\* one message, carrying a reason tag; one that returns true has logged none.
C6_EveryRejectionLogged ==
    ReturnedFrom("is_supported") =>
        IF result.ret THEN log = <<>>
        ELSE Len(log) = 1 /\ log[1].tag \in ReasonTags

\* C7: the two harness invocations of the test block emitted by
\* out_variant_op_test_case_generator carry the same check_resize literal, which
\* is "false" when the operator's type-variant name is in no_memory_resize_ops and
\* "true" otherwise.
C7_CheckResizeFollowsDenylist ==
    ReturnedFrom("out_variant_op_test_case_generator") =>
        LET r == result.text.rounds
        IN  /\ Len(r) = 2
            /\ r[1].harness.check_resize = r[2].harness.check_resize
            /\ r[1].harness.check_resize =
                  (IF TypeVariantName(TheGroup) \in no_memory_resize_ops
                   THEN "false" ELSE "true")

C7_Witness ==
    /\ ReturnedFrom("out_variant_op_test_case_generator")
    /\ TheGroup.functional.overload # ""
    /\ result.text.rounds[2].harness.check_resize = "false"

\* the schema a dispatch closure is generated from
GuardSchema(g) == IF g.cls = "NativeFunctionsViewGroup" THEN g.view ELSE g.functional

\* C8: GenOpDispatcher.out_variant and GenOpDispatcher.view return the empty text
\* for an empty list; for a non-empty list of supported groups they return one
\* registration block whose i-th closure is the closure of the i-th group
\* supplied, a group supplied twice yielding two closures.
C8_OneClosurePerGroupInOrder ==
    call \in {"GenOpDispatcher.out_variant", "GenOpDispatcher.view"} =>
        /\ status = "returned" =>
              IF groups = <<>> THEN result = Text(<<>>)
              ELSE /\ Len(result.text) = 1
                   /\ Len(result.text[1].body) = Len(groups)
                   /\ \A i \in 1..Len(groups) :
                         /\ result.text[1].body[i].matches = SchemaStr(GuardSchema(groups[i]))
                         /\ result.text[1].body[i] = PerGroupGenerator(call, groups[i]).text
        /\ (\A i \in 1..Len(groups) :
                is_supported(groups[i]).ret /\ groups[i].cls = ExpectedCls(call)) =>
              status # "raised"

C8_Witness ==
    /\ ReturnedFrom("GenOpDispatcher.out_variant")
    /\ Len(groups) = 2
    /\ groups[1] = groups[2]
    /\ Len(result.text[1].body) = 2

\* an argument of the flat non-output list carries an alias annotation
AliasAnnotated(arg) ==
    FlatArg(arg).annotation # NoAnnotation /\ FlatArg(arg).annotation[1].alias_set # <<>>

\* C9 as stated: is_supported returns false for every out-variant group in which a
\* non-output argument of the out schema carries an alias annotation.
C9_AliasedInputRejected ==
    (/\ ReturnedFrom("is_supported")
     /\ TheGroup.cls = "NativeFunctionsGroup"
     /\ \E i \in 1..Len(TheGroup.out.non_out) : AliasAnnotated(TheGroup.out.non_out[i])) =>
        ~result.ret

\* the group with an argument-free functional schema
WithoutFunctionalArgs(g) == [g EXCEPT !.functional.non_out = <<>>]

\* C10: is_supported rejects an out-variant group when an argument of its
\* functional schema has no conversion rule, also when the out schema passes every
\* rule; it rejects it as well when an argument of the out schema has none.
C10_FunctionalSchemaChecked ==
    (ReturnedFrom("is_supported") /\ TheGroup.cls = "NativeFunctionsGroup") =>
        /\ ~HasRule(TheGroup.functional) => ~result.ret
        /\ ~HasRule(TheGroup.out) => ~result.ret
        /\ (/\ ~HasRule(TheGroup.functional)
            /\ is_supported(WithoutFunctionalArgs(TheGroup)).ret) =>
              /\ Len(log) = 1
              /\ log[1] = LogEntry("NOT SUPPORTED TYPE CONVERTING",
                                   SchemaStr(TheGroup.functional))

C10_Witness ==
    /\ ReturnedFrom("is_supported")
    /\ TheGroup.cls = "NativeFunctionsGroup"
    /\ ~HasRule(TheGroup.functional)
    /\ HasRule(TheGroup.out)
    /\ is_supported(WithoutFunctionalArgs(TheGroup)).ret
    /\ ~result.ret

----------------------------------------------------------------------------
(* C11 *)

\* the arguments of a finished direct call of test_value_expression
TheArgs == groups[1]

\* the call returned a tensor expression (its argument type is Tensor or Tensor?)
ReturnedTensorExpression ==
    /\ ReturnedFrom("test_value_expression")
    /\ "shape" \in DOMAIN result.text

\* C11: for an operator without a shape override, the shape of the generated
\* tensor has d equal sizes s, d being 1, 2 or 3 by the two dimension tables
\* (3 when in neither), and s the least even number with d * s >= T, T being
\* 16 for round 0 and 64 for any other round; for the operator with an
\* override, the shape is the override whatever the round.
C11_TensorShapeByRoundAndDim ==
    ReturnedTensorExpression =>
        LET shape == result.text.shape
            T == IF TheArgs.index = 0 THEN 16 ELSE 64
            d == IF TheArgs.op_name \in test_tensor_dim_ops_1_ THEN 1
                 ELSE IF TheArgs.op_name \in test_tensor_dim_ops_2_ THEN 2
                 ELSE 3
        IN  IF TheArgs.op_name = "view_as_complex"
            THEN shape = <<2, 2>>
            ELSE /\ Len(shape) = d
                 /\ \A i \in 1..d :
                        /\ shape[i] = shape[1]
                        /\ shape[i] % 2 = 0
                        /\ d * shape[i] >= T
                        /\ d * (shape[i] - 2) < T

\* a three-dimensional shape for a later round: ceil(64 / 3) = 22
C11_Witness ==
    /\ ReturnedTensorExpression
    /\ TheArgs.op_name = "isin"
    /\ TheArgs.index = MaxIndex
    /\ result.text.shape = <<22, 22, 22>>

----------------------------------------------------------------------------
(* C12 *)

\* a finished call, returned or raised, of a function that asserts on the
\* number of output arguments
CalledOutCountAsserter ==
    /\ call \in {"out_variant_op_generator", "generate_out_variant_call"}
    /\ status \in {"returned", "raised"}

====
